---- MODULE Spec2Model ----
(***************************************************************************)
(* Model of metamorphic-gpt: the ingestion script (scripts/ingest.py), the *)
(* role-filtered answering chain (app/services/gpt_service.py) and the     *)
(* Slack background worker (app/services/slack_service.py).                *)
(***************************************************************************)
EXTENDS Naturals, Sequences, FiniteSets, Bags, TLC

\* ------------------------------------------------------------------ bounds
\* Largest modification time a source file takes.
MaxMtime == 2
\* Largest number of copies of one chunk the collection holds.
MaxCopies == 2

\* ------------------------------------------------------------------ paths
\* A path below DOCUMENTS_PATH: its directories, the file's stem and extension.
MkPath(dirs, name, ext) == [dirs |-> dirs, name |-> name, ext |-> ext]

FileA == MkPath(<<"documents", "sales", "general">>, "playbook", ".pdf")
FileB == MkPath(<<"documents", "hr", "hr">>, "policy", ".docx")
FileC == MkPath(<<"documents">>, "file", ".pdf")
FileD == MkPath(<<"documents", "hr", "hr">>, "notes", ".txt")
FileE == MkPath(<<"documents", "sales">>, "memo", ".pdf")

\* The order in which os.walk yields the files of the tree.
WalkOrder == <<FileC, FileA, FileE, FileB, FileD>>
Paths == {WalkOrder[i] : i \in 1..Len(WalkOrder)}

\* Path(filepath).parts: the directories, then the file name.
PathParts(p) == Append(p.dirs, <<p.name, p.ext>>)

\* filename.endswith(('.pdf', '.docx'))
SupportedExt(p) == p.ext \in {".pdf", ".docx"}

\* ------------------------------------------------------------------ state
Runs == {1, 2}
SeqRuns == {1}
Requests == {1, 2}
SeqRequests == {1}

\* The texts a document takes; rewriting a document swaps one for the other.
Texts == {"first", "second"}
OtherText(t) == IF t = "first" THEN "second" ELSE "first"

NoFile == [mtime |-> 0, text |-> "none"]
EmptyLog == [p \in {} |-> 0]
MissingLog == [kind |-> "missing", data |-> EmptyLog]

VARIABLES
    fs,                 \* source tree: path -> [mtime, text]; NoFile when absent
    manifest,           \* data/processed_files.json on disk: [kind, data]
    index,              \* the Qdrant collection: a bag of chunks
    pc,                 \* per sync run: position in main()
    force_reingest,     \* per sync run: main's argument
    files_to_process,   \* per sync run: the scan's result (sequence of file_info)
    split_docs,         \* per sync run: the chunks loaded in this run
    failed_load,        \* per sync run: the files whose loader raised
    tree_changed        \* per sync run: whether the tree has changed since its
                        \* scan: "no", "during" the run, or "after" its end

VARIABLES
    rpc,                \* per Slack request: position of its handler and worker
    payload,            \* per request: the thread_payload handed to the worker
    user_question,      \* per request: the worker's user_question
    profile,            \* per request: what users_profile_get answered
    user_role,          \* per request: the role get_answer was invoked with
    context,            \* per request: the chunks handed to format_docs
    raised,             \* per request: the call that raised, and what
    message,            \* per request: the worker's message
    model_calls,        \* per request: how often the completion model was invoked
    posts               \* per request: the messages sent to Slack, in order

syncVars == <<fs, manifest, index, pc, force_reingest, files_to_process,
              split_docs, failed_load, tree_changed>>
answerVars == <<rpc, payload, user_question, profile, user_role, context,
                raised, message, model_calls, posts>>
vars == <<syncVars, answerVars>>

Exists(fsys, p) == fsys[p] # NoFile

\* ------------------------------------------------------------------ manifest
\* load_processed_files_log with the JSONDecodeError handler left out.
load_without_handler(disk) ==
    IF disk.kind = "missing" THEN [raised |-> FALSE, value |-> EmptyLog]
    ELSE IF disk.kind = "empty" THEN [raised |-> FALSE, value |-> EmptyLog]
    ELSE IF disk.kind = "truncated" THEN [raised |-> TRUE, value |-> EmptyLog]
    ELSE [raised |-> FALSE, value |-> disk.data]

\* load_processed_files_log: the mapping read from the manifest file.
load_processed_files_log(disk) ==
    IF disk.kind = "missing" THEN [raised |-> FALSE, value |-> EmptyLog]
    ELSE IF disk.kind = "empty" THEN [raised |-> FALSE, value |-> EmptyLog]
    ELSE IF disk.kind = "truncated" THEN [raised |-> FALSE, value |-> EmptyLog]
    ELSE [raised |-> FALSE, value |-> disk.data]

\* save_processed_files_log: the manifest file after json.dump.
save_processed_files_log(log_data) == [kind |-> "valid", data |-> log_data]

\* has_file_changed comparing with >= in place of >.
has_file_changed_or_same(filepath, log_data, fsys) ==
    LET last_modified_time == fsys[filepath].mtime
    IN  IF filepath \notin DOMAIN log_data THEN TRUE
        ELSE IF last_modified_time >= log_data[filepath].last_modified THEN TRUE
        ELSE FALSE

\* has_file_changed(filepath, log_data), with os.path.getmtime read from fsys.
has_file_changed(filepath, log_data, fsys) ==
    LET last_modified_time == fsys[filepath].mtime
    IN  IF filepath \notin DOMAIN log_data THEN TRUE
        ELSE IF last_modified_time > log_data[filepath].last_modified THEN TRUE
        ELSE FALSE

\* ------------------------------------------------------------------ scan
\* len(path_parts) >= 4: documents, department, role, filename
MinPathParts == 4

\* The depth test, off by one.
deep_enough_less_one(path_parts) == Len(path_parts) >= MinPathParts - 1

\* ingest.py line 87: the path has a department and a role directory.
deep_enough(path_parts) == Len(path_parts) >= MinPathParts

\* The file_info appended for a selected file (ingest.py lines 88-91).
FileInfo(p) ==
    LET path_parts == PathParts(p)
    IN  [path |-> p,
         metadata |-> [department |-> path_parts[2],
                       role |-> path_parts[3],
                       source |-> p]]

\* The body of the os.walk loop for the files order[i..], appended to acc.
RECURSIVE ScanFrom(_, _, _, _, _)
ScanFrom(i, acc, force, processed_log, fsys) ==
    IF i > Len(WalkOrder) THEN acc
    ELSE LET filepath == WalkOrder[i]
         IN  IF ~Exists(fsys, filepath)
                 THEN ScanFrom(i + 1, acc, force, processed_log, fsys)
             ELSE IF ~SupportedExt(filepath)
                 THEN ScanFrom(i + 1, acc, force, processed_log, fsys)
             ELSE IF force \/ has_file_changed(filepath, processed_log, fsys)
                 THEN IF deep_enough(PathParts(filepath))
                          THEN ScanFrom(i + 1, Append(acc, FileInfo(filepath)),
                                        force, processed_log, fsys)
                          ELSE ScanFrom(i + 1, acc, force, processed_log, fsys)
             ELSE ScanFrom(i + 1, acc, force, processed_log, fsys)

\* get_documents_to_process comparing with the manifest also when forced.
get_documents_comparing(force, disk, fsys) ==
    LET loaded == load_processed_files_log(disk)
    IN  IF loaded.raised THEN [raised |-> TRUE, value |-> <<>>]
        ELSE [raised |-> FALSE,
              value |-> ScanFrom(1, <<>>, FALSE, loaded.value, fsys)]

\* get_documents_to_process(force_reingest) on the tree fsys and manifest disk.
get_documents_to_process(force, disk, fsys) ==
    LET loaded == load_processed_files_log(disk)
    IN  IF loaded.raised THEN [raised |-> TRUE, value |-> <<>>]
        ELSE [raised |-> FALSE,
              value |-> ScanFrom(1, <<>>, force, loaded.value, fsys)]

PathsOf(infos) == {infos[i].path : i \in 1..Len(infos)}

\* ------------------------------------------------------------------ sync run
Active == {"scanned", "loaded", "upserted"}
Resting == {"idle", "noop", "nocontent", "done", "crashed"}

\* The process of run r ends with the given outcome: its locals are gone.
Ends(r, outcome) ==
    /\ pc' = [pc EXCEPT ![r] = outcome]
    /\ force_reingest' = [force_reingest EXCEPT ![r] = FALSE]
    /\ files_to_process' = [files_to_process EXCEPT ![r] = <<>>]
    /\ split_docs' = [split_docs EXCEPT ![r] = {}]
    /\ tree_changed' = [tree_changed EXCEPT ![r] =
                            IF outcome = "done" THEN @ ELSE "no"]

\* main, lines 130-132: the scan.
Scan(r, force) ==
    /\ pc[r] \in Resting
    /\ LET found == get_documents_to_process(force, manifest, fs)
       IN  IF found.raised THEN Ends(r, "crashed")
           ELSE /\ pc' = [pc EXCEPT ![r] = "scanned"]
                /\ force_reingest' = [force_reingest EXCEPT ![r] = force]
                /\ files_to_process' = [files_to_process EXCEPT ![r] = found.value]
                /\ split_docs' = [split_docs EXCEPT ![r] = {}]
                /\ tree_changed' = [tree_changed EXCEPT ![r] = "no"]
    /\ failed_load' = [failed_load EXCEPT ![r] = {}]
    /\ UNCHANGED <<fs, manifest, index>>

\* main, lines 134-136: nothing was selected.
NothingToProcess(r) ==
    /\ pc[r] = "scanned"
    /\ files_to_process[r] = <<>>
    /\ Ends(r, "noop")
    /\ UNCHANGED <<fs, manifest, index, failed_load>>

\* The chunk the splitter yields for a loaded file: its text and the metadata
\* attached by doc.metadata.update(metadata).
Chunk(file_info, fsys) ==
    [page_content |-> [source |-> file_info.path, text |-> fsys[file_info.path].text],
     metadata |-> file_info.metadata]

\* load_and_split_documents: the loaders of the files in raising raise, those of
\* the files in blank extract no text.
load_and_split_documents(infos, raising, blank, fsys) ==
    IF \E i \in 1..Len(infos) : infos[i].path \in raising
        THEN [raised |-> TRUE, value |-> {}]
        ELSE [raised |-> FALSE,
              value |-> {Chunk(infos[i], fsys) :
                            i \in {j \in 1..Len(infos) : infos[j].path \notin blank}}]

\* main, lines 140-148. The loader of a file that is no longer there raises.
Load(r) ==
    /\ pc[r] = "scanned"
    /\ files_to_process[r] # <<>>
    /\ \E raising \in SUBSET PathsOf(files_to_process[r]),
          blank \in SUBSET PathsOf(files_to_process[r]) :
        /\ raising \cap blank = {}
        /\ \A p \in PathsOf(files_to_process[r]) : ~Exists(fs, p) => p \in raising
        /\ LET docs == load_and_split_documents(files_to_process[r], raising, blank, fs)
           IN  IF docs.raised
                   THEN /\ Ends(r, "crashed")
                        /\ failed_load' = [failed_load EXCEPT ![r] = raising]
               ELSE IF docs.value = {}
                   THEN /\ Ends(r, "nocontent")
                        /\ UNCHANGED failed_load
               ELSE /\ pc' = [pc EXCEPT ![r] = "loaded"]
                    /\ split_docs' = [split_docs EXCEPT ![r] = docs.value]
                    /\ UNCHANGED <<force_reingest, files_to_process, failed_load, tree_changed>>
    /\ UNCHANGED <<fs, manifest, index>>

\* Qdrant.from_documents never recreating the collection.
from_documents_keeping(collection, docs, force_recreate) ==
    LET stored == collection (+) SetToBag(docs)
    IN  [c \in DOMAIN stored |-> IF stored[c] > MaxCopies THEN MaxCopies ELSE stored[c]]

\* Qdrant.from_documents with point ids derived from the content: a chunk that
\* is already stored is overwritten.
from_documents_by_content(collection, docs, force_recreate) ==
    LET stored == (IF force_recreate THEN EmptyBag ELSE collection) (+) SetToBag(docs)
    IN  [c \in DOMAIN stored |-> IF c \in docs THEN 1 ELSE stored[c]]

\* Qdrant.from_documents: every chunk becomes a new point (fresh ids), in a
\* collection recreated first when force_recreate is set. Copies of one chunk
\* are counted up to MaxCopies.
from_documents(collection, docs, force_recreate) ==
    LET stored == (IF force_recreate THEN EmptyBag ELSE collection) (+) SetToBag(docs)
    IN  [c \in DOMAIN stored |-> IF stored[c] > MaxCopies THEN MaxCopies ELSE stored[c]]

\* main, lines 150-163, the call returning.
Upsert(r) ==
    /\ pc[r] = "loaded"
    /\ index' = from_documents(index, split_docs[r], force_reingest[r])
    /\ pc' = [pc EXCEPT ![r] = "upserted"]
    /\ UNCHANGED <<fs, manifest, force_reingest, files_to_process, split_docs,
                   failed_load, tree_changed>>

\* main, lines 150-163, the provider call raising: nothing is stored, and the
\* collection is already recreated or not yet.
UpsertFails(r) ==
    /\ pc[r] = "loaded"
    /\ \E recreated \in BOOLEAN :
        index' = IF force_reingest[r] /\ recreated THEN EmptyBag ELSE index
    /\ Ends(r, "crashed")
    /\ UNCHANGED <<fs, manifest, failed_load>>

\* The loop of main leaving after its first file.
UpdateLogFirstOnly(i, infos, processed_log, fsys) ==
    IF i > Len(infos) THEN processed_log
    ELSE LET filepath == infos[i].path
             entry == [last_modified |-> fsys[filepath].mtime]
         IN  [p \in DOMAIN processed_log \cup {filepath} |->
                  IF p = filepath THEN entry ELSE processed_log[p]]

\* The loop of main, lines 168-173, over infos[i..].
RECURSIVE UpdateLog(_, _, _, _)
UpdateLog(i, infos, processed_log, fsys) ==
    IF i > Len(infos) THEN processed_log
    ELSE LET filepath == infos[i].path
             entry == [last_modified |-> fsys[filepath].mtime]
         IN  UpdateLog(i + 1, infos,
                       [p \in DOMAIN processed_log \cup {filepath} |->
                            IF p = filepath THEN entry ELSE processed_log[p]],
                       fsys)

\* os.path.getmtime (line 171) raises for a selected file that is gone.
getmtime_raises(infos, fsys) == \E i \in 1..Len(infos) : ~Exists(fsys, infos[i].path)

\* main without line 167: the log that is saved starts empty.
CommitFromEmpty(r) ==
    /\ pc[r] = "upserted"
    /\ IF getmtime_raises(files_to_process[r], fs)
           THEN /\ Ends(r, "crashed")
                /\ UNCHANGED manifest
           ELSE /\ Ends(r, "done")
                /\ manifest' = save_processed_files_log(
                                   UpdateLog(1, files_to_process[r], EmptyLog, fs))
    /\ UNCHANGED <<fs, index, failed_load>>

\* main, lines 165-176: the manifest is read again, updated and saved.
Commit(r) ==
    /\ pc[r] = "upserted"
    /\ LET loaded == load_processed_files_log(manifest)
       IN  IF loaded.raised \/ getmtime_raises(files_to_process[r], fs)
               THEN /\ Ends(r, "crashed")
                    /\ UNCHANGED manifest
               ELSE /\ Ends(r, "done")
                    /\ manifest' = save_processed_files_log(
                                       UpdateLog(1, files_to_process[r], loaded.value, fs))
    /\ UNCHANGED <<fs, index, failed_load>>

\* The process is killed inside save_processed_files_log: open(..., 'w') has
\* truncated the file and json.dump has written nothing or a prefix.
SaveInterrupted(r) ==
    /\ pc[r] = "upserted"
    /\ \E kind \in {"empty", "truncated"} :
        manifest' = [kind |-> kind, data |-> EmptyLog]
    /\ Ends(r, "crashed")
    /\ UNCHANGED <<fs, index, failed_load>>

\* The process is killed between two steps of main.
Kill(r) ==
    /\ pc[r] \in Active
    /\ Ends(r, "crashed")
    /\ UNCHANGED <<fs, manifest, index, failed_load>>

\* ------------------------------------------------------------------ source tree
\* The document that is edited after its creation; the others only appear.
Edited == {FileA}

\* tree_changed after a change of the tree, for the runs that have scanned it.
Changed == [r \in Runs |-> IF pc[r] \in Active /\ tree_changed[r] = "no" THEN "during"
                           ELSE IF pc[r] = "done" THEN "after"
                           ELSE tree_changed[r]]

\* A file that is not there is created.
AddFile(p) ==
    /\ fs[p] = NoFile
    /\ fs' = [fs EXCEPT ![p] = [mtime |-> 1, text |-> "first"]]
    /\ tree_changed' = Changed
    /\ UNCHANGED <<manifest, index, pc, force_reingest, files_to_process,
                   split_docs, failed_load>>

\* touch: the modification time moves on, the content stays.
TouchFile(p) ==
    /\ p \in Edited
    /\ Exists(fs, p)
    /\ fs[p].mtime < MaxMtime
    /\ fs' = [fs EXCEPT ![p].mtime = @ + 1]
    /\ tree_changed' = Changed
    /\ UNCHANGED <<manifest, index, pc, force_reingest, files_to_process,
                   split_docs, failed_load>>

\* The file is rewritten: new content, later modification time.
ModifyFile(p) ==
    /\ p \in Edited
    /\ Exists(fs, p)
    /\ fs[p].mtime < MaxMtime
    /\ fs' = [fs EXCEPT ![p] = [mtime |-> @.mtime + 1, text |-> OtherText(@.text)]]
    /\ tree_changed' = Changed
    /\ UNCHANGED <<manifest, index, pc, force_reingest, files_to_process,
                   split_docs, failed_load>>

\* The document that is taken out of the tree (and may be put back).
Removed == {FileB}

\* The file is deleted from the tree.
RemoveFile(p) ==
    /\ p \in Removed
    /\ Exists(fs, p)
    /\ fs' = [fs EXCEPT ![p] = NoFile]
    /\ tree_changed' = Changed
    /\ UNCHANGED <<manifest, index, pc, force_reingest, files_to_process,
                   split_docs, failed_load>>

\* ------------------------------------------------------------------ answering
None == "None"
Apology ==
    "Sorry, I encountered an error while processing your request. The engineers have been notified."
Notice == "It looks like you didn't ask a question. Please try again!"
Thinking == "I'm thinking about your question..."
\* What the completion model returns.
Answer == "answer"

\* The number of documents the retriever asks for: search_kwargs 'k'.
TopK == 4

\* The FieldCondition pair of _get_retriever with every point matching.
role_filter_open(role, chunk) == TRUE

\* _get_retriever's role_filter: should = [role == user_role, role == "general"].
role_filter(role, chunk) ==
    \/ chunk.metadata.role = role
    \/ chunk.metadata.role = "general"

RECURSIVE Copies(_, _)
Copies(S, collection) ==
    IF S = {} THEN 0
    ELSE LET c == CHOOSE x \in S : TRUE
         IN  CopiesIn(c, collection) + Copies(S \ {c}, collection)

\* The results a filtered similarity search for the k nearest points can give:
\* the chunks of min(k, matching points) points that pass the filter.
Retrievals(collection, role) ==
    LET matching == {c \in BagToSet(collection) : role_filter(role, c)}
        total == Copies(matching, collection)
        n == IF total < TopK THEN total ELSE TopK
    IN  {S \in SUBSET matching : Cardinality(S) <= n /\ Copies(S, collection) >= n}

\* str.lower() on the role values of the profiles.
Lower(str) ==
    CASE str = "HR" -> "hr"
      [] str = "Sales" -> "sales"
      [] OTHER -> str

\* What users_profile_get answers: it raises, or returns a profile whose fields
\* have no 'Role' label, a 'Role' field without a value, or a 'Role' field.
Profiles ==
    {[kind |-> "raises"], [kind |-> "no_role_field"], [kind |-> "role_without_value"],
     [kind |-> "role", value |-> "HR"], [kind |-> "role", value |-> "Sales"]}

\* get_user_role. The module never imports SlackApiError: when the try block
\* raises, evaluating "except SlackApiError" raises NameError, which leaves the
\* function; the handlers below it are not reached.
get_user_role(prof) ==
    IF prof.kind = "raises" THEN [raised |-> TRUE, value |-> "NameError"]
    ELSE IF prof.kind = "role" THEN [raised |-> FALSE, value |-> Lower(prof.value)]
    ELSE IF prof.kind = "role_without_value"
        THEN [raised |-> FALSE, value |-> Lower("general")]
    ELSE [raised |-> FALSE, value |-> "general"]

\* The texts of a command or a mention, as tokens: the mention of the app id,
\* the mention of the bot user, white space, a word.
Questions ==
    {<<>>, <<"word">>, <<"<@app>", " ">>, <<"<@app>", " ", "word">>, <<"<@bot>">>}

\* str.strip()
RECURSIVE Strip(_)
Strip(text) ==
    IF text = <<>> THEN text
    ELSE IF Head(text) = " " THEN Strip(Tail(text))
    ELSE IF text[Len(text)] = " " THEN Strip(SubSeq(text, 1, Len(text) - 1))
    ELSE text

\* re.sub(f"<@{payload['api_app_id']}>", "", user_question)
StripMention(text) == SelectSeq(text, LAMBDA tok : tok # "<@app>")

\* The except clause of process_ai_request_and_respond passing the error on.
on_exception_leaks(e) == e

\* process_ai_request_and_respond, lines 73-75: the message after an exception.
on_exception(e) == Apology

NoPayload == [response_url |-> None, channel_id |-> None, api_app_id |-> None]
NotRaised == [by |-> None, error |-> None]

\* A handler starts the worker thread on thread_payload, whose 'text' is text.
Begins(q, thread_payload, text, said) ==
    /\ rpc[q] \in {"idle", "finished"}
    /\ rpc' = [rpc EXCEPT ![q] = "started"]
    /\ payload' = [payload EXCEPT ![q] = thread_payload]
    /\ user_question' = [user_question EXCEPT ![q] = text]
    /\ profile' = [profile EXCEPT ![q] = None]
    /\ user_role' = [user_role EXCEPT ![q] = None]
    /\ context' = [context EXCEPT ![q] = {}]
    /\ raised' = [raised EXCEPT ![q] = NotRaised]
    /\ message' = [message EXCEPT ![q] = None]
    /\ model_calls' = [model_calls EXCEPT ![q] = 0]
    /\ posts' = [posts EXCEPT ![q] = said]

\* handle_slash_command: ack, then the worker thread is started.
handle_slash_command(q, text) ==
    Begins(q, [response_url |-> "response_url", channel_id |-> None,
               api_app_id |-> None], text, <<>>)

\* handle_app_mentions: ack, say, then the worker thread is started.
handle_app_mentions(q, text) ==
    Begins(q, [response_url |-> None, channel_id |-> "channel", api_app_id |-> "app"],
           text, <<[to |-> "channel", text |-> Thinking]>>)

\* The worker without the test of line 67: every question is looked up.
CheckQuestionUnguarded(q) ==
    /\ rpc[q] = "started"
    /\ LET question == IF payload[q].api_app_id # None
                           THEN Strip(StripMention(user_question[q]))
                           ELSE user_question[q]
       IN  /\ user_question' = [user_question EXCEPT ![q] = question]
           /\ rpc' = [rpc EXCEPT ![q] = "lookup"]
           /\ UNCHANGED message
    /\ UNCHANGED <<payload, profile, user_role, context, raised, model_calls, posts>>

\* process_ai_request_and_respond, lines 58-68.
CheckQuestion(q) ==
    /\ rpc[q] = "started"
    /\ LET question == IF payload[q].api_app_id # None
                           THEN Strip(StripMention(user_question[q]))
                           ELSE user_question[q]
       IN  /\ user_question' = [user_question EXCEPT ![q] = question]
           /\ IF question = <<>>
                  THEN /\ message' = [message EXCEPT ![q] = Notice]
                       /\ rpc' = [rpc EXCEPT ![q] = "respond"]
                  ELSE /\ rpc' = [rpc EXCEPT ![q] = "lookup"]
                       /\ UNCHANGED message
    /\ UNCHANGED <<payload, profile, user_role, context, raised, model_calls, posts>>

\* process_ai_request_and_respond, line 70, with the outcome of get_user_role.
LookupRole(q) ==
    /\ rpc[q] = "lookup"
    /\ \E prof \in Profiles :
        /\ profile' = [profile EXCEPT ![q] = prof.kind]
        /\ LET role == get_user_role(prof)
           IN  IF role.raised
                   THEN /\ raised' = [raised EXCEPT ![q] =
                                        [by |-> "get_user_role", error |-> role.value]]
                        /\ message' = [message EXCEPT ![q] = on_exception(role.value)]
                        /\ rpc' = [rpc EXCEPT ![q] = "respond"]
                        /\ UNCHANGED user_role
                   ELSE /\ user_role' = [user_role EXCEPT ![q] = role.value]
                        /\ rpc' = [rpc EXCEPT ![q] = "retrieve"]
                        /\ UNCHANGED <<raised, message>>
    /\ UNCHANGED <<payload, user_question, context, model_calls, posts>>

\* A chain that answers by itself when nothing was retrieved.
RetrieveShortCircuits(q) ==
    /\ rpc[q] = "retrieve"
    /\ \E docs \in Retrievals(index, user_role[q]) :
        /\ context' = [context EXCEPT ![q] = docs]
        /\ IF docs = {}
               THEN /\ message' = [message EXCEPT ![q] = "I could not find information"]
                    /\ rpc' = [rpc EXCEPT ![q] = "respond"]
               ELSE /\ rpc' = [rpc EXCEPT ![q] = "compose"]
                    /\ UNCHANGED message
    /\ UNCHANGED <<payload, user_question, profile, user_role, raised, model_calls, posts>>

\* A retriever kept on the service and built for the role looked up last, by
\* whichever request.
RetrieveWithSharedRole(q) ==
    /\ rpc[q] = "retrieve"
    /\ \E o \in Requests :
        /\ user_role[o] # None
        /\ \E docs \in Retrievals(index, user_role[o]) :
            context' = [context EXCEPT ![q] = docs]
    /\ rpc' = [rpc EXCEPT ![q] = "compose"]
    /\ UNCHANGED <<payload, user_question, profile, user_role, raised, message,
                   model_calls, posts>>

\* get_answer: the retriever of the chain returns, and format_docs gets its
\* documents.
Retrieve(q) ==
    /\ rpc[q] = "retrieve"
    /\ \E docs \in Retrievals(index, user_role[q]) :
        context' = [context EXCEPT ![q] = docs]
    /\ rpc' = [rpc EXCEPT ![q] = "compose"]
    /\ UNCHANGED <<payload, user_question, profile, user_role, raised, message,
                   model_calls, posts>>

\* get_answer: the embedding of the query or the search raises.
RetrieveFails(q) ==
    /\ rpc[q] = "retrieve"
    /\ raised' = [raised EXCEPT ![q] = [by |-> "retriever", error |-> "provider error"]]
    /\ message' = [message EXCEPT ![q] = on_exception("provider error")]
    /\ rpc' = [rpc EXCEPT ![q] = "respond"]
    /\ UNCHANGED <<payload, user_question, profile, user_role, context, model_calls, posts>>

\* get_answer: prompt, model and output parser return the answer.
Complete(q) ==
    /\ rpc[q] = "compose"
    /\ message' = [message EXCEPT ![q] = Answer]
    /\ model_calls' = [model_calls EXCEPT ![q] = @ + 1]
    /\ rpc' = [rpc EXCEPT ![q] = "respond"]
    /\ UNCHANGED <<payload, user_question, profile, user_role, context, raised, posts>>

\* get_answer: the completion call raises.
CompleteFails(q) ==
    /\ rpc[q] = "compose"
    /\ raised' = [raised EXCEPT ![q] = [by |-> "model", error |-> "provider error"]]
    /\ message' = [message EXCEPT ![q] = on_exception("provider error")]
    /\ model_calls' = [model_calls EXCEPT ![q] = @ + 1]
    /\ rpc' = [rpc EXCEPT ![q] = "respond"]
    /\ UNCHANGED <<payload, user_question, profile, user_role, context, posts>>

\* The worker posting to response_url only, without the elif of line 80.
RespondUrlOnly(q) ==
    /\ rpc[q] = "respond"
    /\ posts' = [posts EXCEPT ![q] =
                    IF payload[q].response_url # None
                        THEN Append(@, [to |-> payload[q].response_url,
                                        text |-> message[q]])
                    ELSE @]
    /\ rpc' = [rpc EXCEPT ![q] = "finished"]
    /\ UNCHANGED <<payload, user_question, profile, user_role, context, raised, message,
                   model_calls>>

\* process_ai_request_and_respond, lines 77-82.
Respond(q) ==
    /\ rpc[q] = "respond"
    /\ posts' = [posts EXCEPT ![q] =
                    IF payload[q].response_url # None
                        THEN Append(@, [to |-> payload[q].response_url,
                                        text |-> message[q]])
                    ELSE IF payload[q].channel_id # None
                        THEN Append(@, [to |-> payload[q].channel_id,
                                        text |-> message[q]])
                    ELSE @]
    /\ rpc' = [rpc EXCEPT ![q] = "finished"]
    /\ UNCHANGED <<payload, user_question, profile, user_role, context, raised, message,
                   model_calls>>

\* ------------------------------------------------------------------ specification
InitSync ==
    /\ manifest = MissingLog
    /\ index = EmptyBag
    /\ pc = [r \in Runs |-> "idle"]
    /\ force_reingest = [r \in Runs |-> FALSE]
    /\ files_to_process = [r \in Runs |-> <<>>]
    /\ split_docs = [r \in Runs |-> {}]
    /\ failed_load = [r \in Runs |-> {}]
    /\ tree_changed = [r \in Runs |-> "no"]

InitAnswer ==
    /\ rpc = [q \in Requests |-> "idle"]
    /\ payload = [q \in Requests |-> NoPayload]
    /\ user_question = [q \in Requests |-> <<>>]
    /\ profile = [q \in Requests |-> None]
    /\ user_role = [q \in Requests |-> None]
    /\ context = [q \in Requests |-> {}]
    /\ raised = [q \in Requests |-> NotRaised]
    /\ message = [q \in Requests |-> None]
    /\ model_calls = [q \in Requests |-> 0]
    /\ posts = [q \in Requests |-> <<>>]

SyncStep(r) ==
    \/ \E force \in BOOLEAN : Scan(r, force)
    \/ NothingToProcess(r)
    \/ Load(r)
    \/ Upsert(r)
    \/ UpsertFails(r)
    \/ Commit(r)
    \/ SaveInterrupted(r)
    \/ Kill(r)

TreeStep ==
    \E p \in Paths :
        \/ AddFile(p)
        \/ TouchFile(p)
        \/ ModifyFile(p)

AnswerStep(q) ==
    \/ \E text \in Questions : handle_slash_command(q, text)
    \/ \E text \in Questions : handle_app_mentions(q, text)
    \/ CheckQuestion(q)
    \/ LookupRole(q)
    \/ Retrieve(q)
    \/ RetrieveFails(q)
    \/ Complete(q)
    \/ CompleteFails(q)
    \/ Respond(q)

\* The ingestion script run by one operator at a time over a changing tree.
Init ==
    /\ fs = [p \in Paths |-> NoFile]
    /\ InitSync
    /\ InitAnswer

Next ==
    \/ (\E r \in SeqRuns : SyncStep(r)) /\ UNCHANGED answerVars
    \/ TreeStep /\ UNCHANGED answerVars

Spec == Init /\ [][Next]_vars

\* The Slack bot answering over a collection that sync runs fill from a tree
\* with every file in place.
InitBot ==
    /\ fs = [p \in Paths |-> [mtime |-> 1, text |-> "first"]]
    /\ InitSync
    /\ InitAnswer

NextBot ==
    \/ (\E r \in SeqRuns : SyncStep(r)) /\ UNCHANGED answerVars
    \/ (\E q \in SeqRequests : AnswerStep(q)) /\ UNCHANGED syncVars

SpecBot == InitBot /\ [][NextBot]_vars

\* The ingestion script run by one operator at a time over a tree in which
\* files appear, change and disappear.
NextPruned ==
    \/ (\E r \in SeqRuns : SyncStep(r)) /\ UNCHANGED answerVars
    \/ TreeStep /\ UNCHANGED answerVars
    \/ (\E p \in Paths : RemoveFile(p)) /\ UNCHANGED answerVars

SpecPruned == Init /\ [][NextPruned]_vars

\* Two operators running the ingestion script at once over a tree with every
\* file in place.
NextOverlap == (\E r \in Runs : SyncStep(r)) /\ UNCHANGED answerVars

SpecOverlap == InitBot /\ [][NextOverlap]_vars

\* The steps of the background thread of request q.
Worker(q) ==
    \/ CheckQuestion(q)
    \/ LookupRole(q)
    \/ Retrieve(q)
    \/ RetrieveFails(q)
    \/ Complete(q)
    \/ CompleteFails(q)
    \/ Respond(q)

\* The Slack bot serving several requests at once, each in its own thread, over
\* the collection as one completed run over the full tree has left it. A thread
\* that is started runs on: every external call it makes returns or raises.
FullTree == [p \in Paths |-> [mtime |-> 1, text |-> "first"]]

InitServing ==
    LET selected == get_documents_to_process(FALSE, MissingLog, FullTree).value
        docs == load_and_split_documents(selected, {}, {}, FullTree).value
    IN  /\ fs = FullTree
        /\ manifest = save_processed_files_log(UpdateLog(1, selected, EmptyLog, FullTree))
        /\ index = from_documents(EmptyBag, docs, FALSE)
        /\ pc = [r \in Runs |-> IF r \in SeqRuns THEN "done" ELSE "idle"]
        /\ force_reingest = [r \in Runs |-> FALSE]
        /\ files_to_process = [r \in Runs |-> <<>>]
        /\ split_docs = [r \in Runs |-> {}]
        /\ failed_load = [r \in Runs |-> {}]
        /\ tree_changed = [r \in Runs |-> "no"]
        /\ InitAnswer

NextServing == (\E q \in Requests : AnswerStep(q)) /\ UNCHANGED syncVars

SpecServing ==
    /\ InitServing
    /\ [][NextServing]_vars
    /\ \A q \in Requests : WF_vars(Worker(q) /\ UNCHANGED syncVars)

\* ------------------------------------------------------------------ properties
\* What the claims speak of, stated on the tree and the manifest directly.
WellPlaced(p) == Len(p.dirs) >= 3
Supported(p) == p.ext = ".pdf" \/ p.ext = ".docx"
Eligible(fsys) == {p \in Paths : fsys[p] # NoFile /\ Supported(p) /\ WellPlaced(p)}
Entries(disk) == IF disk.kind = "valid" THEN disk.data ELSE EmptyLog
NewOrModified(disk, fsys) ==
    {p \in Eligible(fsys) :
        \/ p \notin DOMAIN Entries(disk)
        \/ fsys[p].mtime > Entries(disk)[p].last_modified}

\* C1: the manifest changes only in the step after the upsert has returned, and
\* when a run crashes leaving the manifest as it was, every file the run had
\* selected is selected by a following non-force scan.
C1_CommitLastAndRetry ==
    [][/\ manifest' # manifest => \E r \in Runs : pc[r] = "upserted"
       /\ \A r \in Runs :
            (pc[r] \in Active /\ pc'[r] = "crashed" /\ manifest' = manifest)
                => PathsOf(files_to_process[r]) \subseteq NewOrModified(manifest', fs')
      ]_vars

\* The part of C1 that the code keeps: as C1, for the runs that are not forced.
C1_NonForceRetry ==
    [][/\ manifest' # manifest => \E r \in Runs : pc[r] = "upserted"
       /\ \A r \in Runs :
            (pc[r] \in Active /\ ~force_reingest[r] /\ pc'[r] = "crashed"
                /\ manifest' = manifest)
                => PathsOf(files_to_process[r]) \subseteq NewOrModified(manifest', fs')
      ]_vars

\* C3 as stated: after a run has completed, and with no file added or modified
\* after its completion, the next non-force scan selects nothing, and a run that
\* selected nothing returns without a load, an upsert or a manifest write.
IdempotentStep(r, unchanged) ==
    /\ (pc[r] = "done" /\ unchanged /\ pc'[r] = "scanned" /\ ~force_reingest'[r])
            => files_to_process'[r] = <<>>
    /\ (pc[r] = "scanned" /\ files_to_process[r] = <<>>)
            => /\ pc'[r] \in {"scanned", "noop", "crashed"}
               /\ index' = index
               /\ manifest' = manifest

C3_IdempotentAfterCompletion ==
    [][\A r \in Runs : IdempotentStep(r, tree_changed[r] # "after")]_vars

\* C3, amended: the same, with no file added or modified since the completed
\* run's scan.
C3_IdempotentSinceScan ==
    [][\A r \in Runs : IdempotentStep(r, tree_changed[r] = "no")]_vars

\* A scan has selected nothing although every eligible file of the tree is there
\* and recorded.
C3_Witness ==
    \E r \in Runs :
        /\ pc[r] = "scanned" /\ ~force_reingest[r] /\ files_to_process[r] = <<>>
        /\ manifest.kind = "valid"
        /\ {FileA, FileB} \subseteq Eligible(fs)
        /\ Eligible(fs) \subseteq DOMAIN manifest.data

\* C4: once a non-force run has upserted, every vector of the collection that
\* comes from a file the run selected is one of the chunks loaded in this run.
C4_NoStaleVectors ==
    \A r \in Runs :
        (pc[r] = "upserted" /\ ~force_reingest[r])
            => \A c \in BagToSet(index) :
                    c.metadata.source \in PathsOf(files_to_process[r])
                        => c \in split_docs[r]

\* C5: a non-force scan selects exactly the supported, well-placed files that
\* have no manifest entry or a modification time greater than the recorded one.
C5_SelectsNewOrModified ==
    \A r \in Runs :
        (pc[r] = "scanned" /\ ~force_reingest[r] /\ tree_changed[r] = "no")
            => PathsOf(files_to_process[r]) = NewOrModified(manifest, fs)

\* A touched file (same text, later mtime) is selected and a recorded file with
\* the recorded mtime is not.
C5_Witness ==
    \E r \in Runs :
        /\ pc[r] = "scanned" /\ ~force_reingest[r] /\ tree_changed[r] = "no"
        /\ manifest.kind = "valid"
        /\ {FileA, FileB} \subseteq DOMAIN manifest.data
        /\ fs[FileA].text = "first"
        /\ fs[FileA].mtime > manifest.data[FileA].last_modified
        /\ fs[FileB].mtime = manifest.data[FileB].last_modified
        /\ PathsOf(files_to_process[r]) = {FileA}

\* C6: when the loader of a selected file raises, the run does not fail.
C6_LoaderFailureLocal ==
    [][\A r \in Runs :
            (pc[r] = "scanned" /\ failed_load'[r] # {}) => pc'[r] # "crashed"]_vars

\* C7: a supported file with too few path segments is never selected, indexed or
\* recorded; the scan does not raise on it and still selects the other files.
C7_MisplacedExcluded ==
    \A p \in Paths :
        ~WellPlaced(p) =>
            /\ p \notin DOMAIN Entries(manifest)
            /\ \A c \in BagToSet(index) : c.metadata.source # p
            /\ \A force \in BOOLEAN : ~get_documents_to_process(force, manifest, fs).raised
            /\ \A r \in Runs :
                /\ p \notin PathsOf(files_to_process[r])
                /\ \A c \in split_docs[r] : c.metadata.source # p
                /\ (pc[r] = "scanned" /\ tree_changed[r] = "no")
                        => \A q \in Eligible(fs) :
                                (force_reingest[r] \/ q \notin DOMAIN Entries(manifest))
                                    => q \in PathsOf(files_to_process[r])

\* Both misplaced files are in the tree, the other files were selected and
\* indexed, and a run has completed.
C7_Witness ==
    \E r \in Runs :
        /\ pc[r] = "done"
        /\ Exists(fs, FileC) /\ Exists(fs, FileE)
        /\ {FileA, FileB} \subseteq DOMAIN Entries(manifest)
        /\ \E c \in BagToSet(index) : c.metadata.source = FileA

C11_ForceRunReplacesIndex ==
    [][\A r \in Runs :
            (force_reingest[r] /\ pc[r] \in {"loaded", "upserted"}
                /\ pc'[r] \in {"upserted", "done"})
                => index' = SetToBag(split_docs[r])]_vars

\* A forced run has upserted the rewritten FileA, whose earlier version a run
\* before it had recorded.
C11_Witness ==
    \E r \in Runs :
        /\ pc[r] = "upserted" /\ force_reingest[r]
        /\ FileA \in DOMAIN Entries(manifest)
        /\ fs[FileA].text = "second"
        /\ Chunk(FileInfo(FileA), fs) \in split_docs[r]
        /\ index = SetToBag(split_docs[r])

\* C12: a forced scan selects every supported, well-placed file of the tree,
\* whatever the manifest holds.
C12_ForceSelectsAllEligible ==
    /\ PathsOf(get_documents_to_process(TRUE, manifest, fs).value) = Eligible(fs)
    /\ \A r \in Runs :
        (pc[r] = "scanned" /\ force_reingest[r] /\ tree_changed[r] = "no")
            => PathsOf(files_to_process[r]) = Eligible(fs)

\* A forced scan has selected two files that the manifest records with their
\* current modification times.
C12_Witness ==
    \E r \in Runs :
        /\ pc[r] = "scanned" /\ force_reingest[r] /\ tree_changed[r] = "no"
        /\ manifest.kind = "valid"
        /\ {FileA, FileB} \subseteq DOMAIN manifest.data
        /\ fs[FileA].mtime = manifest.data[FileA].last_modified
        /\ fs[FileB].mtime = manifest.data[FileB].last_modified
        /\ PathsOf(files_to_process[r]) = {FileA, FileB}

\* C15: when a run commits, a file whose content is no longer the one the run
\* loaded and indexed is selected by the next non-force scan.
C15_ModifiedDuringRunReselected ==
    [][\A r \in Runs :
            (pc[r] = "upserted" /\ pc'[r] = "done")
                => \A c \in split_docs[r] :
                        c.page_content.text # fs[c.metadata.source].text
                            => c.metadata.source \in
                                PathsOf(get_documents_to_process(FALSE, manifest', fs').value)
      ]_vars

\* C16: a run may scan whatever the other run is doing, and a non-force upsert
\* adds one point for each of its chunks, also for a chunk that the other run
\* has stored already.
C16_OverlapDuplicates ==
    [][/\ \A r \in Runs :
            pc[r] \in Resting => ENABLED (Scan(r, FALSE) /\ UNCHANGED answerVars)
       /\ \A r \in Runs :
            (pc[r] = "loaded" /\ pc'[r] = "upserted" /\ ~force_reingest[r])
                => \A c \in split_docs[r] :
                        CopiesIn(c, index') =
                            IF CopiesIn(c, index) < MaxCopies
                                THEN CopiesIn(c, index) + 1 ELSE MaxCopies
      ]_vars

\* Both runs have selected FileA before either has committed, both have upserted
\* its chunk, and the collection holds it twice.
C16_Witness ==
    /\ manifest = MissingLog
    /\ \A r \in Runs :
        /\ pc[r] = "upserted" /\ ~force_reingest[r]
        /\ FileA \in PathsOf(files_to_process[r])
        /\ Chunk(FileInfo(FileA), fs) \in split_docs[r]
    /\ CopiesIn(Chunk(FileInfo(FileA), fs), index) = 2

\* What a step may do to the manifest: every entry stays, and an entry that is
\* new or has changed belongs to a file selected by a run that is committing.
AppendOrOverwrite ==
    /\ DOMAIN Entries(manifest) \subseteq DOMAIN Entries(manifest')
    /\ \A p \in DOMAIN Entries(manifest') :
        (p \notin DOMAIN Entries(manifest) \/ Entries(manifest')[p] # Entries(manifest)[p])
            => \E r \in Runs : /\ pc[r] = "upserted" /\ pc'[r] = "done"
                               /\ p \in PathsOf(files_to_process[r])

C2_ContextWithinRole ==
    \A q \in Requests :
        \A c \in context[q] :
            c.metadata.role = user_role[q] \/ c.metadata.role = "general"

\* A request of role sales got a context while the collection held an hr chunk.
C2_Witness ==
    \E q \in Requests :
        /\ rpc[q] = "compose"
        /\ user_role[q] = "sales"
        /\ context[q] # {}
        /\ \E c \in BagToSet(index) : c.metadata.role = "hr"

\* C8: once the role lookup of a request is over and has found no Role field or
\* has raised, the answering pipeline has been invoked with the role "general".
C8_UnresolvedRoleIsGeneral ==
    \A q \in Requests :
        (rpc[q] \in {"retrieve", "compose", "respond", "finished"}
            /\ profile[q] \in {"no_role_field", "raises"})
            => user_role[q] = "general"

\* The part of C8 that the code keeps: a profile without a Role field.
C8_NoRoleFieldIsGeneral ==
    \A q \in Requests :
        (rpc[q] \in {"retrieve", "compose", "respond", "finished"}
            /\ profile[q] \in {"no_role_field", "role_without_value"})
            => user_role[q] = "general"

\* C9: when the retriever or the model has raised, the worker's message, and the
\* message it posts last, is the apology, and no post carries the error's text.
C9_ApologyOnPipelineFailure ==
    \A q \in Requests :
        raised[q].by \in {"retriever", "model"}
            => /\ message[q] = Apology
               /\ \A i \in 1..Len(posts[q]) : posts[q][i].text # raised[q].error
               /\ rpc[q] = "finished"
                    => /\ posts[q] # <<>>
                       /\ posts[q][Len(posts[q])].text = Apology

\* The model has raised and the apology has been posted.
C9_Witness ==
    \E q \in Requests :
        /\ rpc[q] = "finished"
        /\ raised[q].by = "model"
        /\ posts[q] # <<>>
        /\ posts[q][Len(posts[q])].text = Apology

\* C13: the completion model is invoked at most once per request, it has not
\* been invoked before retrieval returns, and once retrieval has returned and the
\* worker has its message the model has been invoked exactly once, whatever the
\* number of chunks retrieved; the message is then the model's answer or the
\* apology for the model's failure.
C13_ModelInvokedOnceAfterRetrieval ==
    \A q \in Requests :
        /\ model_calls[q] <= 1
        /\ rpc[q] \in {"started", "lookup", "retrieve", "compose"} => model_calls[q] = 0
        /\ (rpc[q] \in {"respond", "finished"} /\ user_role[q] # None
                /\ raised[q].by # "retriever")
            => /\ model_calls[q] = 1
               /\ message[q] = IF raised[q].by = "model" THEN Apology ELSE Answer

\* A request whose retrieval gave no chunk has been answered by the model.
C13_Witness ==
    \E q \in Requests :
        /\ rpc[q] = "finished"
        /\ user_role[q] # None /\ raised[q] = NotRaised
        /\ context[q] = {}
        /\ model_calls[q] = 1
        /\ message[q] = Answer
        /\ posts[q] # <<>> /\ posts[q][Len(posts[q])].text = Answer

\* What belongs to request q alone.
Own(q) == <<rpc[q], payload[q], user_question[q], profile[q], user_role[q], context[q],
            raised[q], message[q], model_calls[q], posts[q]>>

\* C14: with requests running at once, the context of each holds only chunks of
\* its own role or of "general", a step of one request changes nothing that
\* belongs to another, and no request changes the collection.
C14_ConcurrentRequestsIsolated ==
    [][/\ \A q \in Requests :
            \A c \in context'[q] :
                c.metadata.role = user_role'[q] \/ c.metadata.role = "general"
       /\ \A q \in Requests :
            Own(q)' # Own(q) => \A o \in Requests \ {q} : Own(o)' = Own(o)
       /\ index' = index
      ]_vars

\* Two requests of roles hr and sales both hold their context at the same time:
\* the hr chunk is in the one and not in the other.
C14_Witness ==
    \E q, o \in Requests :
        /\ rpc[q] = "compose" /\ rpc[o] = "compose"
        /\ user_role[q] = "hr" /\ user_role[o] = "sales"
        /\ \E c \in context[q] : c.metadata.role = "hr"
        /\ context[o] # {}
        /\ \A c \in context[o] : c.metadata.role = "general"

\* The posts of request q that are not the handler's "thinking" message.
FinalPosts(q) == SelectSeq(posts[q], LAMBDA m : m.text # Thinking)

\* The worker of request q has posted its message, once, to the response_url
\* when the payload has one and to the channel otherwise.
Delivered(q) ==
    /\ rpc[q] = "finished"
    /\ message[q] \in {Answer, Notice, Apology}
    /\ FinalPosts(q) =
            <<[to |-> IF payload[q].response_url # None
                          THEN payload[q].response_url ELSE payload[q].channel_id,
               text |-> message[q]]>>

\* C18: every request a handler has started is eventually delivered, and at no
\* time has a request more than one final post, or one before its worker is done.
C18_EventuallyOneFinalPost ==
    /\ \A q \in Requests : [](rpc[q] = "started" => <>Delivered(q))
    /\ [](\A q \in Requests :
            /\ Len(FinalPosts(q)) <= 1
            /\ rpc[q] # "finished" => FinalPosts(q) = <<>>
            /\ rpc[q] = "finished" => Delivered(q))

\* A mention has been answered in its channel after the "thinking" message, and
\* a command through its response_url.
C18_Witness ==
    \E q, o \in Requests :
        /\ Delivered(q) /\ Delivered(o)
        /\ payload[q].response_url = None
        /\ posts[q] = <<[to |-> "channel", text |-> Thinking],
                        [to |-> "channel", text |-> Answer]>>
        /\ payload[o].response_url # None
        /\ Len(posts[o]) = 1

\* C19: a request whose question is empty once the mention is stripped never
\* reaches the role lookup or the pipeline, and its message is the notice.
C19_EmptyQuestionGetsNotice ==
    \A q \in Requests :
        /\ rpc[q] \in {"lookup", "retrieve", "compose"} => user_question[q] # <<>>
        /\ (rpc[q] \in {"respond", "finished"} /\ user_question[q] = <<>>)
            => /\ profile[q] = None /\ user_role[q] = None
               /\ context[q] = {} /\ model_calls[q] = 0
               /\ raised[q] = NotRaised
               /\ message[q] = Notice
               /\ rpc[q] = "finished" => posts[q][Len(posts[q])].text = Notice

\* A mention that held nothing but the mention has been answered with the notice.
C19_Witness ==
    \E q \in Requests :
        /\ rpc[q] = "finished"
        /\ payload[q].api_app_id # None
        /\ user_question[q] = <<>>
        /\ posts[q] = <<[to |-> "channel", text |-> Thinking],
                        [to |-> "channel", text |-> Notice]>>

====
